---- MODULE Spec2Model ----
(***************************************************************************)
(* Model of src/inference_seg_model.py: the class                          *)
(* EMPatches_Effi_Seg_Inference (temporary directory, extract_patches,     *)
(* cleanup) and the script around it that runs a model over the persisted  *)
(* patches and stitches the results into reconstructed_seg_mask.           *)
(*                                                                         *)
(* Arrays are records [shape |-> <<ny, nx, nc>>, at |-> pixels], pixels a  *)
(* function from <<row, column>> (zero based) to the tuple of channel      *)
(* values.  A file name is the sequence of its character codes, so that    *)
(* sorted(os.listdir(..)) is the lexicographic order Python computes.      *)
(* An overlap is the fraction num / OverlapDen; with OverlapDen = 4 the     *)
(* floating point product windowSize * overlap of line 66 is exact.        *)
(*                                                                         *)
(* Spec is the script of lines 108-155 run once on one image.  SpecLife is *)
(* any client of the instance calling extract_patches and cleanup in any   *)
(* order.                                                                  *)
(***************************************************************************)
EXTENDS Integers, Sequences, FiniteSets, TLC

\* ---------------------------------------------------------------- bounds
MaxDim == 6
MaxPatch == 4
MaxStride == 4
OverlapDen == 4
MaxSessions == 2

\* self.temp_dir = None (line 22); directories are numbered from 1
None == 0

\* Channel counts of the arrays handed to extract_patches: 3 is what
\* cv2.imread returns (line 115), 1 a single-channel array, 0 an empty axis.
Depths == {0, 1, 3}

Min(a, b) == IF a <= b THEN a ELSE b
Max(a, b) == IF a >= b THEN a ELSE b

\* ---------------------------------------------------------------- arrays

\* np.zeros(org_shape, dtype=np.uint8)                          (line 139)
Zeros(shape) ==
    [shape |-> shape,
     at |-> [p \in (0 .. shape[1] - 1) \X (0 .. shape[2] - 1) |->
                [c \in 1 .. shape[3] |-> 0]]]

\* The input image of the run (line 115): every pixel differs from every
\* other one, in every channel and in its grey value.
Image(h, w, d) ==
    [shape |-> <<h, w, d>>,
     at |-> [p \in (0 .. h - 1) \X (0 .. w - 1) |->
                [c \in 1 .. d |-> (7 * (p[1] * (MaxDim + 2) + p[2]) + c) % 256]]]

IsEmpty(a) == a.shape[1] * a.shape[2] * a.shape[3] = 0

\* Python's normalisation of one bound of a slice over an axis of length n
SliceBound(v, n) == IF v < 0 THEN Max(v + n, 0) ELSE Min(v, n)

\* data[(slice(y0, y1), slice(x0, x1))]                      (lines 94-95)
Slice(a, y0, y1, x0, x1) ==
    LET ys == SliceBound(y0, a.shape[1])
        ye == Max(SliceBound(y1, a.shape[1]), ys)
        xs == SliceBound(x0, a.shape[2])
        xe == Max(SliceBound(x1, a.shape[2]), xs)
    IN  [shape |-> <<ye - ys, xe - xs, a.shape[3]>>,
         at |-> [p \in (0 .. ye - ys - 1) \X (0 .. xe - xs - 1) |->
                    a.at[<<ys + p[1], xs + p[2]>>]]]

\* ------------------------------------------------------------ file names

RECURSIVE Digits(_)
\* str(n) for n >= 0, as character codes ("0" is 48)
Digits(n) == IF n < 10 THEN <<48 + n>> ELSE Digits(n \div 10) \o <<48 + (n % 10)>>

\* f"patch_{patch_index}.png"                                    (line 93)
PatchName(patch_index) ==
    <<112, 97, 116, 99, 104, 95>> \o Digits(patch_index) \o <<46, 112, 110, 103>>

\* Python's order of two strings
LexLess(a, b) ==
    \/ \E k \in 1 .. Min(Len(a), Len(b)) :
          /\ a[k] < b[k]
          /\ \A j \in 1 .. k - 1 : a[j] = b[j]
    \/ /\ Len(a) < Len(b)
       /\ \A j \in 1 .. Len(a) : a[j] = b[j]

RECURSIVE Sorted(_)
\* sorted(names)                                                (line 142)
Sorted(S) ==
    IF S = {} THEN <<>>
    ELSE LET m == CHOOSE x \in S : \A y \in S \ {x} : LexLess(x, y)
         IN  <<m>> \o Sorted(S \ {m})

\* -------------------------------------------------------- image codec

\* cv2.imwrite(patch_path, patch) (line 94) stores the array unchanged (PNG
\* is lossless) and refuses an empty one with cv2.error.
ImwriteFails(a) == IsEmpty(a)

\* cv2.imread(patch_path) (line 144): always three channels; a
\* single-channel file is replicated.
Imread(file) ==
    [shape |-> <<file.shape[1], file.shape[2], 3>>,
     at |-> [p \in DOMAIN file.at |->
                IF file.shape[3] = 1
                THEN <<file.at[p][1], file.at[p][1], file.at[p][1]>>
                ELSE <<file.at[p][1], file.at[p][2], file.at[p][3]>>]]

\* cv2.cvtColor(x, cv2.COLOR_RGB2GRAY): Y = 0.299 R + 0.587 G + 0.114 B of
\* the channels in the order given, rounded                     (line 130)
Gray(px) == (299 * px[1] + 587 * px[2] + 114 * px[3] + 500) \div 1000

\* y = model(patch); y = np.stack((y,)*3, axis=-1)         (lines 145-146)
Seg_Model(patch) ==
    [shape |-> patch.shape,
     at |-> [p \in DOMAIN patch.at |->
                <<Gray(patch.at[p]), Gray(patch.at[p]), Gray(patch.at[p])>>]]

\* The stand-in model that returns its patch unchanged, already in the
\* buffer's channel layout.
IdentityModel(patch) == patch

\* A stand-in model whose answer for a pixel depends on the whole patch: it
\* paints the patch with the patch's first pixel.
FloodModel(patch) ==
    [shape |-> patch.shape,
     at |-> [p \in DOMAIN patch.at |-> patch.at[<<0, 0>>]]]

Models == {"Seg_Model", "identity", "flood"}

\* model(patch) and the channel adaptation that follows   (lines 145-146)
ApplyModel(m, patch) ==
    CASE m = "Seg_Model" -> Seg_Model(patch)
      [] m = "identity" -> IdentityModel(patch)
      [] OTHER -> FloodModel(patch)

\* ---------------------------------------------------------------- tiling

WindowSizeUnclamped(maxWindowSize, dim) == maxWindowSize

\* windowSizeX = min(maxWindowSize, width)                  (lines 56-59)
WindowSize(maxWindowSize, dim) == Min(maxWindowSize, dim)

OverlapPixelsCeil(windowSize, num) == -((-(windowSize * num)) \div OverlapDen)

\* int(math.floor(windowSizeX * overlapPercent))            (lines 66-68)
OverlapPixels(windowSize, num) == (windowSize * num) \div OverlapDen

\* stepSizeX of lines 61-74, for the policy of the call
StepSize(windowSize, policy) ==
    CASE policy.kind = "stride" -> policy.val
      [] policy.kind = "overlap" -> windowSize - OverlapPixels(windowSize, policy.val)
      [] OTHER -> 1

\* list(range(0, stop, step)), step # 0                      (lines 77-79)
PyRange(stop, step) ==
    LET n == IF step > 0
             THEN (IF stop <= 0 THEN 0 ELSE (stop + step - 1) \div step)
             ELSE (IF stop >= 0 THEN 0 ELSE ((-stop) + (-step) - 1) \div (-step))
    IN  [k \in 1 .. n |-> (k - 1) * step]

OffsetsNoAppend(last, step) == PyRange(last + 1, step)

\* xOffsets after the correction of lines 81-86
Offsets(last, step) ==
    LET r == PyRange(last + 1, step)
    IN  IF Len(r) = 0 \/ r[Len(r)] # last THEN Append(r, last) ELSE r

IndexEntrySwapped(yOffset, xOffset, windowSizeY, windowSizeX) ==
    <<xOffset, xOffset + windowSizeX, yOffset, yOffset + windowSizeY>>

\* (yOffset, yOffset+windowSizeY, xOffset, xOffset+windowSizeX)  (line 97)
IndexEntry(yOffset, xOffset, windowSizeY, windowSizeX) ==
    <<yOffset, yOffset + windowSizeY, xOffset, xOffset + windowSizeX>>

\* The locals of extract_patches up to line 86.  raised: range() was given
\* a zero step (ValueError) and no offset list exists.
Tile(shape, patchsize, policy) ==
    LET height == shape[1]
        width == shape[2]
        depth == shape[3]
        wX == WindowSize(patchsize, width)
        wY == WindowSize(patchsize, height)
        wZ == WindowSize(patchsize, depth)
        sX == StepSize(wX, policy)
        sY == StepSize(wY, policy)
        sZ == StepSize(wZ, policy)
        raised == sX = 0 \/ sY = 0 \/ sZ = 0
    IN  [windowSize |-> <<wX, wY, wZ>>,
         stepSize |-> <<sX, sY, sZ>>,
         last |-> <<width - wX, height - wY, depth - wZ>>,
         raised |-> raised,
         xOffsets |-> IF raised THEN <<>> ELSE Offsets(width - wX, sX),
         yOffsets |-> IF raised THEN <<>> ELSE Offsets(height - wY, sY),
         zOffsets |-> IF raised THEN <<>> ELSE Offsets(depth - wZ, sZ)]

\* The windows in the order of the loops of lines 91-92: x outer, y inner
Windows(t) ==
    LET ny == Len(t.yOffsets)
    IN  [k \in 1 .. Len(t.xOffsets) * ny |->
            IndexEntry(t.yOffsets[((k - 1) % ny) + 1],
                       t.xOffsets[((k - 1) \div ny) + 1],
                       t.windowSize[2], t.windowSize[1])]

\* The patch cut for the loop's k-th window (lines 94-95)
PatchAt(a, t, k) ==
    LET ny == Len(t.yOffsets)
        yOffset == t.yOffsets[((k - 1) % ny) + 1]
        xOffset == t.xOffsets[((k - 1) \div ny) + 1]
    IN  Slice(a, yOffset, yOffset + t.windowSize[2], xOffset, xOffset + t.windowSize[1])

\* ----------------------------------------------------------------- state

VARIABLES
    data,        \* image, the array handed to extract_patches     (line 115)
    patchsize,   \* the patchsize argument of the run              (line 116)
    policy,      \* its stride / overlap arguments                 (line 116)
    temp_dir,    \* self.temp_dir                                   (line 22)
    fs,          \* the directories made by mkdtemp, each name |-> file
    nextDir,     \* how many directories mkdtemp has made, plus one
    frame,       \* the locals of the latest extract_patches call
    exc,         \* what the latest method call raised, "none" if it returned
    lastCall,    \* the latest method called on the instance
    prevCall,    \* the method called before it
    patches_path, indices, org_shape,     \* what line 116 bound
    model,       \* the model of the run                           (line 132)
    listing,     \* sorted(os.listdir(patches_path))               (line 142)
    i,           \* enumerate's counter                            (line 142)
    reconstructed_seg_mask,                                     \* line 139
    pc           \* where the script is

vars == <<data, patchsize, policy, temp_dir, fs, nextDir, frame, exc, lastCall, prevCall,
          patches_path, indices, org_shape, model, listing, i,
          reconstructed_seg_mask, pc>>

instanceVars == <<temp_dir, fs, nextDir, frame, exc, lastCall, prevCall>>
scriptVars == <<patches_path, indices, org_shape>>
loopVars == <<model, listing, i, reconstructed_seg_mask>>
argVars == <<data, patchsize, policy>>

NoFrame == Tile(<<1, 1, 1>>, 1, [kind |-> "default", val |-> 0])

EmptyDir == [n \in {} |-> 0]

Policies ==
    {[kind |-> "default", val |-> 0]}
    \cup {[kind |-> "stride", val |-> s] : s \in 1 .. MaxStride}
    \cup {[kind |-> "overlap", val |-> n] : n \in 0 .. OverlapDen - 1}

\* emp = EMPatches_Effi_Seg_Inference() (lines 21-23, 108) and the
\* arguments of the run (lines 115-116)
Init ==
    /\ \E h \in 0 .. MaxDim, w \in 0 .. MaxDim, d \in Depths : data = Image(h, w, d)
    /\ patchsize \in -1 .. MaxPatch
    /\ policy \in Policies
    /\ temp_dir = None
    /\ fs = EmptyDir
    /\ nextDir = 1
    /\ frame = NoFrame
    /\ exc = "none"
    /\ lastCall = "none"
    /\ prevCall = "none"
    /\ patches_path = None
    /\ indices = <<>>
    /\ org_shape = <<0, 0, 0>>
    /\ model = "Seg_Model"
    /\ listing = <<>>
    /\ i = 0
    /\ reconstructed_seg_mask = Zeros(<<0, 0, 0>>)
    /\ pc = "idle"

\* ------------------------------------------------------- extract_patches

\* How many patches the loop of lines 91-97 writes before imwrite raises
\* (all of them when none is empty)
Written(a, t) ==
    LET n == Len(Windows(t))
        bad == {k \in 1 .. n : ImwriteFails(PatchAt(a, t, k))}
    IN  IF bad = {} THEN n ELSE (CHOOSE k \in bad : \A j \in bad : k <= j) - 1

\* The directory after the loop: patch_0.png .. patch_{n-1}.png
PatchFiles(a, t, n) ==
    [name \in {PatchName(k - 1) : k \in 1 .. n} |->
        LET k == CHOOSE j \in 1 .. n : PatchName(j - 1) = name
        IN  PatchAt(a, t, k)]

\* emp.extract_patches(image, patchsize, overlap / stride)  (lines 31-99):
\* mkdtemp, the offsets, one file per window, the return of line 99 bound
\* by the caller; an exception leaves the caller's variables as they were.
ExtractPatches ==
    /\ nextDir <= MaxSessions
    /\ LET t == Tile(data.shape, patchsize, policy)
           n == IF t.raised THEN 0 ELSE Written(data, t)
           all == ~t.raised /\ n = Len(Windows(t))
       IN  /\ temp_dir' = nextDir
           /\ nextDir' = nextDir + 1
           /\ fs' = (nextDir :> PatchFiles(data, t, n)) @@ fs
           /\ frame' = t
           /\ lastCall' = "extract_patches"
           /\ prevCall' = lastCall
           /\ exc' = IF t.raised THEN "ValueError"
                     ELSE IF all THEN "none" ELSE "cv2.error"
           /\ IF all
              THEN /\ patches_path' = nextDir
                   /\ indices' = Windows(t)
                   /\ org_shape' = data.shape
                   /\ pc' = "extracted"
              ELSE /\ UNCHANGED scriptVars
                   /\ pc' = "failed"
    /\ UNCHANGED <<argVars, loopVars>>

\* ---------------------------------------------------------------- cleanup

TempDirKept(td) == td

\* self.temp_dir = None                                           (line 29)
TempDirAfterCleanup(td) == None

\* emp.cleanup() (lines 25-29); shutil.rmtree raises FileNotFoundError on a
\* directory that is not there.
Cleanup ==
    /\ lastCall' = "cleanup"
    /\ prevCall' = lastCall
    /\ IF temp_dir # None
       THEN IF temp_dir \in DOMAIN fs
            THEN /\ fs' = [dir \in DOMAIN fs \ {temp_dir} |-> fs[dir]]
                 /\ temp_dir' = TempDirAfterCleanup(temp_dir)
                 /\ exc' = "none"
            ELSE /\ exc' = "FileNotFoundError"
                 /\ UNCHANGED <<fs, temp_dir>>
       ELSE /\ exc' = "none"
            /\ UNCHANGED <<fs, temp_dir>>
    /\ pc' = "idle"
    /\ UNCHANGED <<nextDir, frame, argVars, scriptVars, loopVars>>

\* --------------------------------------------------------- reconstruction

\* numpy's rule for buf[...] = y: every axis of y has the region's length
\* or length 1
Broadcastable(src, dst) == \A k \in 1 .. 3 : src[k] = dst[k] \/ src[k] = 1

\* The shape of reconstructed_seg_mask[y_start:y_end, x_start:x_end]
RegionShape(buf, off) ==
    Slice(buf, off[1], off[2], off[3], off[4]).shape

\* The value y gives to the region's pixel p, channel c, under broadcasting
Broadcast(y, p, c) ==
    y.at[<<IF y.shape[1] = 1 THEN 0 ELSE p[1],
           IF y.shape[2] = 1 THEN 0 ELSE p[2]>>][IF y.shape[3] = 1 THEN 1 ELSE c]

AssignRegionKeepFirst(buf, off, y) ==
    LET ys == SliceBound(off[1], buf.shape[1])
        xs == SliceBound(off[3], buf.shape[2])
        rs == RegionShape(buf, off)
    IN  [buf EXCEPT !.at =
            [p \in DOMAIN buf.at |->
                IF /\ p[1] >= ys /\ p[1] < ys + rs[1]
                   /\ p[2] >= xs /\ p[2] < xs + rs[2]
                   /\ \A c \in 1 .. buf.shape[3] : buf.at[p][c] = 0
                THEN [c \in 1 .. buf.shape[3] |-> Broadcast(y, <<p[1] - ys, p[2] - xs>>, c)]
                ELSE buf.at[p]]]

\* reconstructed_seg_mask[y_start:y_end, x_start:x_end] = y     (line 148)
AssignRegion(buf, off, y) ==
    LET ys == SliceBound(off[1], buf.shape[1])
        xs == SliceBound(off[3], buf.shape[2])
        rs == RegionShape(buf, off)
    IN  [buf EXCEPT !.at =
            [p \in DOMAIN buf.at |->
                IF /\ p[1] >= ys /\ p[1] < ys + rs[1]
                   /\ p[2] >= xs /\ p[2] < xs + rs[2]
                THEN [c \in 1 .. buf.shape[3] |-> Broadcast(y, <<p[1] - ys, p[2] - xs>>, c)]
                ELSE buf.at[p]]]

\* What iteration k (from 0) of the loop hands to the assignment:
\* the file sorted k-th, read and run through the model   (lines 142-146)
Result(k) == ApplyModel(model, Imread(fs[patches_path][listing[k + 1]]))

\* model = Seg_Model(); the buffer; the listing       (lines 132, 139, 142)
ReconInit ==
    /\ pc = "extracted"
    /\ model' \in Models
    /\ reconstructed_seg_mask' = Zeros(org_shape)
    /\ listing' = Sorted(DOMAIN fs[patches_path])
    /\ i' = 0
    /\ pc' = "loop"
    /\ UNCHANGED <<argVars, instanceVars, scriptVars>>

\* One iteration of the loop of lines 142-149.  A result that does not fit
\* its region raises ValueError and ends the script.
ReconStep ==
    /\ pc = "loop"
    /\ i < Len(listing)
    /\ IF /\ i < Len(indices)
          /\ Broadcastable(Result(i).shape,
                           RegionShape(reconstructed_seg_mask, indices[i + 1]))
       THEN /\ reconstructed_seg_mask' =
                   AssignRegion(reconstructed_seg_mask, indices[i + 1], Result(i))
            /\ i' = i + 1
            /\ pc' = "loop"
       ELSE /\ pc' = "failed"
            /\ UNCHANGED <<reconstructed_seg_mask, i>>
    /\ UNCHANGED <<argVars, instanceVars, scriptVars, model, listing>>

\* cv2.imwrite(output_path, reconstructed_seg_mask)             (line 151)
WriteOutput ==
    /\ pc = "loop"
    /\ i = Len(listing)
    /\ pc' = "written"
    /\ UNCHANGED <<argVars, instanceVars, scriptVars, loopVars>>

\* patches_path, indices, org_shape = emp.extract_patches(..)   (line 116)
ScriptExtract ==
    /\ pc = "idle"
    /\ lastCall = "none"
    /\ ExtractPatches

\* _ = emp.cleanup()                                             (line 155)
ScriptCleanup ==
    /\ pc = "written"
    /\ Cleanup

\* The script: an exception ends it where it is raised.
Next ==
    \/ ScriptExtract
    \/ ReconInit
    \/ ReconStep
    \/ WriteOutput
    \/ ScriptCleanup

Spec == Init /\ [][Next]_vars

\* A client that only calls the two methods, in any order.
NextLife ==
    \/ ExtractPatches
    \/ Cleanup

SpecLife == Init /\ [][NextLife]_vars

\* ---------------------------------------------------------------- claims

height == data.shape[1]
width == data.shape[2]
depth == data.shape[3]

\* The inputs the tiler's contract calls valid (every policy of Policies is)
Valid == height >= 1 /\ width >= 1 /\ depth >= 1 /\ patchsize >= 1

\* extract_patches has been called
Called == nextDir > 1

\* extract_patches has returned and line 116 has bound its result
Extracted == patches_path # None

Inside(off, y, x) == off[1] <= y /\ y < off[2] /\ off[3] <= x /\ x < off[4]

Covered == \A y \in 0 .. height - 1, x \in 0 .. width - 1 :
              \E k \in 1 .. Len(indices) : Inside(indices[k], y, x)

\* The step of the call is at most the window on both tiled axes (always
\* so under Overlap and Default)
StepWithinWindow ==
    policy.kind = "stride" =>
        policy.val <= Min(patchsize, width) /\ policy.val <= Min(patchsize, height)

\* C1 as stated: for valid inputs under every policy, every pixel of the
\* plane lies in at least one returned window.
C1_CoverageAnyPolicy == (Valid /\ Extracted) => Covered

\* C1 amended: for valid inputs whose step does not exceed the window on
\* either axis, every pixel of the plane lies in at least one returned window.
C1_CoverageStepWithinWindow == (Valid /\ Extracted /\ StepWithinWindow) => Covered

C1_Witness ==
    /\ Valid /\ Extracted /\ StepWithinWindow
    /\ policy.kind = "stride" /\ policy.val > 1
    /\ (width - Min(patchsize, width)) % policy.val # 0
    /\ (height - Min(patchsize, height)) % policy.val # 0
    /\ Len(indices) >= 4

\* C4 Bounds: every returned Offset of a valid call satisfies
\* 0 <= yStart < yEnd <= height and 0 <= xStart < xEnd <= width.
C4_Bounds ==
    (Valid /\ Extracted) =>
        \A k \in 1 .. Len(indices) :
            /\ 0 <= indices[k][1] /\ indices[k][1] < indices[k][2]
            /\ indices[k][2] <= height
            /\ 0 <= indices[k][3] /\ indices[k][3] < indices[k][4]
            /\ indices[k][4] <= width

C4_Witness ==
    /\ Valid /\ Extracted
    /\ patchsize > height /\ patchsize < width
    /\ Len(indices) > 1
    /\ indices[Len(indices)][2] = height
    /\ indices[Len(indices)][4] = width

\* C5 Edge-exactness: for valid inputs the X-offset list is non-empty and
\* ends at width - windowSizeX, the Y-offset list is non-empty and ends at
\* height - windowSizeY.
C5_EdgeExact ==
    (Valid /\ Called) =>
        /\ Len(frame.xOffsets) > 0
        /\ frame.xOffsets[Len(frame.xOffsets)] = width - Min(patchsize, width)
        /\ Len(frame.yOffsets) > 0
        /\ frame.yOffsets[Len(frame.yOffsets)] = height - Min(patchsize, height)

\* the progression stopped short of last on both axes and last was appended
C5_Witness ==
    /\ Valid /\ Called
    /\ Len(frame.xOffsets) >= 2 /\ Len(frame.yOffsets) >= 2
    /\ (width - Min(patchsize, width)) % frame.stepSize[1] # 0
    /\ (height - Min(patchsize, height)) % frame.stepSize[2] # 0

\* C9 Totality: on valid inputs every step (X, Y, Z) is >= 1 and the call
\* returns, without raising, a list of |xOffsets| * |yOffsets| offsets.
C9_Total ==
    (Valid /\ lastCall = "extract_patches") =>
        /\ \A a \in 1 .. 3 : frame.stepSize[a] >= 1
        /\ exc = "none"
        /\ patches_path = temp_dir
        /\ indices = Windows(frame)
        /\ Len(indices) = Len(frame.xOffsets) * Len(frame.yOffsets)

C9_Witness ==
    /\ Valid /\ lastCall = "extract_patches"
    /\ policy.kind = "overlap" /\ policy.val > 0
    /\ frame.stepSize[1] < frame.windowSize[1]
    /\ frame.stepSize[3] < frame.windowSize[3]
    /\ Len(indices) > 2

\* C2 Round-trip identity: with stride = patchSize and the identity model,
\* the finished reconstruction equals the input, pixel for pixel, for every
\* input size and patch count.
C2_RoundTrip ==
    (/\ pc = "written" /\ model = "identity" /\ Valid
     /\ policy.kind = "stride" /\ policy.val = patchsize)
        => reconstructed_seg_mask = data

\* C3 Index-order correlation: the i-th file the loop processes (i from 0) is
\* the patch extract_patches wrote as index i, for any number of patches.
C3_IndexOrder ==
    pc \in {"loop", "written"} =>
        \A k \in 1 .. Len(listing) : listing[k] = PatchName(k - 1)

\* C6 Rejection: a call with patchSize <= 0 or a dimension <= 0 fails with
\* the invalid-argument error (Python's ValueError), never otherwise.
C6_InvalidRejected ==
    (~Valid /\ lastCall = "extract_patches") => exc = "ValueError"

\* C7 Release: once a sequence of extract_patches and cleanup calls has
\* ended with cleanup, no directory the instance created remains.
C7_AllReleased ==
    lastCall = "cleanup" => DOMAIN fs = {}

LastCovering(p) ==
    LET cover == {k \in 1 .. Len(indices) : Inside(indices[k], p[1], p[2])}
    IN  IF cover = {} THEN 0 ELSE CHOOSE k \in cover : \A j \in cover : j <= k

\* C10 Last-writer-wins: after the loop, a pixel inside some window holds
\* the value the highest-indexed result containing it has there, and a pixel
\* inside no window is still zero.
C10_LastWriterWins ==
    pc = "written" =>
        \A p \in DOMAIN reconstructed_seg_mask.at :
            LET k == LastCovering(p)
            IN  IF k = 0
                THEN \A c \in 1 .. org_shape[3] : reconstructed_seg_mask.at[p][c] = 0
                ELSE reconstructed_seg_mask.at[p] =
                        Result(k - 1).at[<<p[1] - indices[k][1], p[2] - indices[k][3]>>]

\* overlapping windows whose results disagree, and a pixel under no window
C10_Witness ==
    /\ pc = "written"
    /\ \E p \in DOMAIN reconstructed_seg_mask.at :
          \E j \in 1 .. Len(indices) :
             /\ j < LastCovering(p)
             /\ Inside(indices[j], p[1], p[2])
             /\ Result(j - 1).at[<<p[1] - indices[j][1], p[2] - indices[j][3]>>]
                   # reconstructed_seg_mask.at[p]

====
